---------------------------- MODULE Spec2Model ----------------------------
(***************************************************************************)
(* A model of matrix_bot_lib.MatrixBot: the request executor               *)
(* (process_body), the sync loop (run / sync), the listener registry and   *)
(* dispatcher (on_* / parse_room_join / parse_room_invite), the token      *)
(* store (_save_tokens), login / login_token and homeserver resolution     *)
(* (get_homeserver).                                                       *)
(*                                                                         *)
(* JSON objects are TLA+ records (functions from key strings); an absent   *)
(* key is a key outside the DOMAIN.  A coroutine is modelled by one action *)
(* per suspension point (the awaited HTTP call, the backoff sleep) plus    *)
(* one action for the caller's continuation after process_body returns.    *)
(***************************************************************************)
EXTENDS Integers, Sequences, FiniteSets, TLC

VARIABLES
    \* --- request executor (process_body) ---
    pb_pc,          \* "idle" | "await" (func() in flight) | "sleep" | "done"
    caller,         \* who called _GET/_POST: "client" | "sync" | "login" | "none"
    retry_cnt,      \* the loop variable of process_body
    attempts,       \* calls of func() made by the current process_body call
    hist,           \* status codes received by the current process_body call
    resp,           \* the last response r received
    last_sleep,     \* milliseconds of the last asyncio.sleep of this call
    pb_result,      \* the value returned by the current process_body call
    hdrs,           \* the headers get_auth() gave each attempt of this call
    \* --- sync loop (run) ---
    run_pc,         \* "init" | "syncing" | "synced" | "returned" | "raised"
    req_params,     \* params of the last sync() call
    next_batch,     \* run()'s local: the value the last sync() returned
    \* --- listener registry and dispatcher ---
    listeners,      \* self.listeners: key -> sequence of callbacks
    calls,          \* listener invocations made by the last sync() call
    exc,            \* exception that escaped the last sync() call, or "none"
    \* --- token store ---
    access_token, access_token_expire, refresh_token,
    applied,        \* the token result last given to _save_tokens
    now,            \* the clock read by datetime.now(), in milliseconds
    \* --- login / login_token ---
    login_pc,       \* "init" | "flows" | "post" | "refresh" | "returned" | "raised"
    login_ret,      \* what the last login / login_token call returned
    login_flows,    \* login(): the result of GET client/v3/login
    login_req,      \* the request last handed to _GET / _POST by login*
    user_id,        \* self.user_id
    \* --- homeserver resolution (get_homeserver) ---
    hs_pc,          \* "init" | "probe1" | "wellknown" | "probe2" | "returned" | "raised"
    server_name,    \* the argument of get_homeserver
    maybe_homeserver, \* the candidate URL
    hs_sent,        \* the URLs requested with httpx.get, in order
    hs_probe,       \* r of the last _test_is_homeserver call that sent a request
    hs_r,           \* r of get_homeserver: the answer to the .well-known request
    hs_out          \* the URL returned

pbVars  == <<pb_pc, caller, retry_cnt, attempts, hist, resp, last_sleep, pb_result, hdrs>>
runVars == <<run_pc, req_params, next_batch>>
regVars == <<listeners, calls, exc>>
tokVars == <<access_token, access_token_expire, refresh_token, applied, now>>
loginVars == <<login_pc, login_ret, login_flows, login_req, user_id>>
hsVars  == <<hs_pc, server_name, maybe_homeserver, hs_sent, hs_probe, hs_r, hs_out>>
vars    == <<pbVars, runVars, regVars, tokVars, loginVars, hsVars>>

-----------------------------------------------------------------------------
(* Values *)

None == "None"

EmptyDict == <<>>

Has(d, k) == k \in DOMAIN d

\* dict.get(k, default)
Get(d, k, default) == IF Has(d, k) THEN d[k] ELSE default

\* result.Ok / result.Err
Ok(v)  == [kind |-> "Ok", value |-> v]
Err(e) == [kind |-> "Err", error |-> e]
NoResult == [kind |-> "none"]
NoResp == [status |-> 0, body |-> EmptyDict]
NoRequest == [method |-> "none", path |-> "", json |-> EmptyDict]
NoURL == [scheme |-> "", host |-> "", path |-> <<>>]

IsOk(res)  == res.kind = "Ok"
IsErr(res) == res.kind = "Err"

\* The three strings process_body can put into Err(...), kept apart by what
\* they are formatted from.
ErrCode(errcode) == [class |-> "errcode", code |-> errcode]
ErrUnknown(status_code, result) ==
    [class |-> "unknown", status_code |-> status_code, result |-> result]
ErrExhausted(n) == [class |-> "exhausted", retries |-> n]

-----------------------------------------------------------------------------
(* Request executor *)

MAX_RETRIES == 6

\* (mutant) 2**(retry_cnt + 1)
Backoff_FromTwo(cnt) == 2 ^ (cnt + 1)

\* Backoff when the 429 body has no retry_after_ms: 2**retry_cnt
Backoff(cnt) == 2 ^ cnt

\* The 429 arm sleeps and continues.  (asyncio is bound by the import under
\* `if __name__ == '__main__'`: the file runs as a script, which is also the
\* only way its `from MatrixModels import` resolves.)
On429(cnt, r) ==
    [next |-> "sleep", result |-> NoResult,
     ms |-> Get(r.body, "retry_after_ms", Backoff(cnt))]

\* (mutant) the 401 | 403 arm asks for errcode alone
IsAuthError_ErrcodeOnly(r) ==
    /\ r.status \in {401, 403}
    /\ Has(r.body, "errcode")

\* The 401 | 403 arm: a mapping pattern with both keys
IsAuthError(r) ==
    /\ r.status \in {401, 403}
    /\ Has(r.body, "errcode")
    /\ Has(r.body, "error")

\* (mutant) the 200 arm taken only for a truthy body
MatchResponse_TruthyBody(cnt, r) ==
    IF r.status = 200 /\ r.body # EmptyDict THEN
        [next |-> "return", result |-> Ok(r.body), ms |-> 0]
    ELSE IF r.status = 429 THEN
        On429(cnt, r)
    ELSE IF IsAuthError(r) THEN
        [next |-> "return", result |-> Err(ErrCode(r.body.errcode)), ms |-> 0]
    ELSE
        [next |-> "return", result |-> Err(ErrUnknown(r.status, r.body)), ms |-> 0]

\* match r.status_code, r.json(): the arms in source order
MatchResponse(cnt, r) ==
    IF r.status = 200 THEN
        [next |-> "return", result |-> Ok(r.body), ms |-> 0]
    ELSE IF r.status = 429 THEN
        On429(cnt, r)
    ELSE IF IsAuthError(r) THEN
        [next |-> "return", result |-> Err(ErrCode(r.body.errcode)), ms |-> 0]
    ELSE
        [next |-> "return", result |-> Err(ErrUnknown(r.status, r.body)), ms |-> 0]

\* (mutant) range(MAX_RETRIES + 1)
HasNextRetry_OneMore(cnt) == cnt + 1 < MAX_RETRIES + 1

\* range(MAX_RETRIES): is there another iteration after retry_cnt = cnt
HasNextRetry(cnt) == cnt + 1 < MAX_RETRIES

\* get_auth(): the headers of a request made now
AuthHeaders(token) ==
    IF token # None /\ token # ""
    THEN [Authorization |-> <<"Bearer ", token>>]
    ELSE EmptyDict

\* (mutant) headers=... evaluated once, outside aux()
AttemptHeaders_OncePerCall(is_first, prev, token) ==
    IF is_first THEN AuthHeaders(token) ELSE prev

\* aux() of _GET / _POST: headers=self.get_auth() is evaluated by every
\* call of func(), the first (prev = the headers of no attempt) and the
\* later ones (prev = the headers of the attempt before)
AttemptHeaders(is_first, prev, token) == AuthHeaders(token)

\* _GET / _POST: process_body(aux) starts its loop and awaits the first func()
PB_Call(c) ==
    /\ pb_pc' = "await"
    /\ caller' = c
    /\ retry_cnt' = 0
    /\ attempts' = 1
    /\ hist' = <<>>
    /\ resp' = NoResp
    /\ last_sleep' = 0
    /\ pb_result' = NoResult
    /\ hdrs' = <<AttemptHeaders(TRUE, EmptyDict, access_token)>>

\* `r = await func()` completes with r, then the match statement
PB_Respond(r) ==
    /\ pb_pc = "await"
    /\ resp' = r
    /\ hist' = Append(hist, r.status)
    /\ LET m == MatchResponse(retry_cnt, r) IN
         IF m.next = "sleep"
         THEN /\ pb_pc' = "sleep"
              /\ last_sleep' = m.ms
              /\ UNCHANGED pb_result
         ELSE /\ pb_pc' = "done"
              /\ pb_result' = m.result
              /\ UNCHANGED last_sleep
    /\ UNCHANGED <<caller, retry_cnt, attempts, hdrs>>

\* asyncio.sleep returns; `continue` takes the next iteration of the for
\* loop, or the loop is over and the trailing return is reached
PB_Wake ==
    /\ pb_pc = "sleep"
    /\ IF HasNextRetry(retry_cnt)
       THEN /\ retry_cnt' = retry_cnt + 1
            /\ attempts' = attempts + 1
            /\ pb_pc' = "await"
            /\ hdrs' = Append(hdrs, AttemptHeaders(FALSE, hdrs[Len(hdrs)], access_token))
            /\ UNCHANGED pb_result
       ELSE /\ pb_pc' = "done"
            /\ pb_result' = Err(ErrExhausted(retry_cnt + 1))
            /\ UNCHANGED <<retry_cnt, attempts, hdrs>>
    /\ UNCHANGED <<caller, hist, resp, last_sleep>>

-----------------------------------------------------------------------------
(* Response decoder: EventMetadata *)

\* origin_server_ts as the server sends it (an int of epoch milliseconds)
IntTs(ms) == [ty |-> "int", v |-> ms]

\* datetime.fromtimestamp(ms / 1000): a datetime, held in microseconds
DateTime(ms) == [ty |-> "datetime", us |-> ms * 1000]

NoTs == [ty |-> "none"]

NoMetadata == EmptyDict

\* A JSON string standing where a JSON object is expected
JStr(s) == [jstr |-> s]
IsDict(v) == ~Has(v, "jstr")

\* dict['origin_server_ts'] = datetime.fromtimestamp(dict[...] / 1000):
\* the argument dict is changed in place; dividing anything but a number
\* raises TypeError
ConvertTs(d) ==
    IF ~Has(d, "origin_server_ts") THEN [exc |-> "none", d |-> d]
    ELSE IF d.origin_server_ts.ty = "int"
         THEN [exc |-> "none",
               d |-> [d EXCEPT !.origin_server_ts = DateTime(@.v)]]
         ELSE [exc |-> "TypeError", d |-> d]

\* cls(**{k: v for k in KEYS}): room_id and sender have no default
MetadataOf(d) ==
    [room_id |-> d.room_id,
     sender |-> d.sender,
     event_id |-> Get(d, "event_id", None),
     origin_server_ts |-> Get(d, "origin_server_ts", NoTs),
     unsigned |-> Get(d, "unsigned", EmptyDict)]

\* EventMetadata.from_dict(dict): the metadata or the exception raised, and
\* the dict as the call leaves it
FromDict(d) ==
    LET c == ConvertTs(d) IN
    IF c.exc # "none" THEN [exc |-> c.exc, md |-> NoMetadata, d |-> c.d]
    ELSE IF ~(Has(c.d, "room_id") /\ Has(c.d, "sender"))
         THEN [exc |-> "TypeError", md |-> NoMetadata, d |-> c.d]
         ELSE [exc |-> "none", md |-> MetadataOf(c.d), d |-> c.d]

-----------------------------------------------------------------------------
(* Listener registry and dispatcher *)

MSG_KEY == "m.room.message"
REACTION_KEY == "m.reaction"
INVITE_KEY == "???"

\* The callbacks a program registers.  f1 only reads what it is given; f2
\* writes into the content it is given, at top level and into the nested
\* relation.
Callbacks == {"f1", "f2"}

Writes(f) == f = "f2"

\* The envelope's content object after f ran on evt_content.copy(): the
\* copy is shallow, so f's top-level writes stay in the copy and its writes
\* into a nested object land in the object the envelope holds too
AfterListener(f, content) ==
    IF Writes(f) /\ Has(content, "m.relates_to")
    THEN [content EXCEPT !["m.relates_to"].key = "changed"]
    ELSE content

\* self.listeners[key].append(func) on a defaultdict(list)
Registered(L, key, f) ==
    IF Has(L, key) THEN [L EXCEPT ![key] = Append(@, f)]
    ELSE (key :> <<f>>) @@ L

\* self.listeners[key] on a defaultdict(list): reading a missing key adds it
Touched(L, key) == IF Has(L, key) THEN L ELSE (key :> <<>>) @@ L

LenAt(L, key) == IF Has(L, key) THEN Len(L[key]) ELSE 0

TotalListeners(L) == LenAt(L, MSG_KEY) + LenAt(L, REACTION_KEY) + LenAt(L, INVITE_KEY)

\* {"type": ..., "content": ..., **rest}
RestOf(event) == [k \in (DOMAIN event) \ {"type", "content"} |-> event[k]]

\* rest['room_id'] = room_id
WithRoom(rest, room_id) ==
    [k \in (DOMAIN rest) \cup {"room_id"} |->
        IF k = "room_id" THEN room_id ELSE rest[k]]

\* for f in fs: f(evt_content.copy(), metadata=EventMetadata.from_dict(rest))
\* acc is what the sync() call has done so far: the invocations made, the
\* exception raised (then nothing more runs) and the registry.
RECURSIVE InvokeListeners(_, _, _, _, _)
InvokeListeners(fs, content, rest, tag, acc) ==
    IF fs = <<>> \/ acc.exc # "none" THEN acc
    ELSE IF ~IsDict(content) THEN [acc EXCEPT !.exc = "AttributeError"]
    ELSE LET m == FromDict(rest) IN
         IF m.exc # "none" THEN [acc EXCEPT !.exc = m.exc]
         ELSE InvokeListeners(
                 Tail(fs), AfterListener(Head(fs), content), m.d, tag,
                 [acc EXCEPT !.calls = Append(@,
                     [f |-> Head(fs), content |-> content, metadata |-> m.md,
                      src |-> tag.src, room |-> tag.room, idx |-> tag.idx])])

\* (mutant) self.listeners a plain dict read without the membership test:
\* a type without listeners raises KeyError
JoinEvent_KeyError(room_id, event, i, acc) ==
    IF Has(event, "type") /\ Has(event, "content") THEN
        IF Has(acc.listeners, event.type) THEN
            InvokeListeners(acc.listeners[event.type], event.content,
                            WithRoom(RestOf(event), room_id),
                            [src |-> "join", room |-> room_id, idx |-> i], acc)
        ELSE [acc EXCEPT !.exc = "KeyError"]
    ELSE acc

\* One envelope of a joined room's timeline
JoinEvent(room_id, event, i, acc) ==
    IF Has(event, "type") /\ Has(event, "content") THEN
        IF Has(acc.listeners, event.type) THEN
            InvokeListeners(acc.listeners[event.type], event.content,
                            WithRoom(RestOf(event), room_id),
                            [src |-> "join", room |-> room_id, idx |-> i], acc)
        ELSE acc
    ELSE acc

\* (mutant) for event in reversed(events)
RECURSIVE JoinEvents_Reversed(_, _, _, _)
JoinEvents_Reversed(room_id, events, i, acc) ==
    IF i > Len(events) \/ acc.exc # "none" THEN acc
    ELSE JoinEvents_Reversed(room_id, events, i + 1,
            JoinEvent(room_id, events[Len(events) + 1 - i], Len(events) + 1 - i, acc))

\* for event in events
RECURSIVE JoinEvents(_, _, _, _)
JoinEvents(room_id, events, i, acc) ==
    IF i > Len(events) \/ acc.exc # "none" THEN acc
    ELSE JoinEvents(room_id, events, i + 1, JoinEvent(room_id, events[i], i, acc))

\* parse_room_join
ParseRoomJoin(room_id, room_dict, acc) ==
    IF Has(room_dict, "timeline") /\ Has(room_dict.timeline, "events")
    THEN JoinEvents(room_id, room_dict.timeline.events, 1, acc)
    ELSE acc

\* One envelope of an invited room's invite_state
InviteEvent(room_id, event, i, acc) ==
    IF Has(event, "type") /\ event.type = "m.room.member" /\ Has(event, "content") THEN
        LET L == Touched(acc.listeners, INVITE_KEY) IN
        InvokeListeners(L[INVITE_KEY], event.content,
                        WithRoom(RestOf(event), room_id),
                        [src |-> "invite", room |-> room_id, idx |-> i],
                        [acc EXCEPT !.listeners = L])
    ELSE acc

RECURSIVE InviteEvents(_, _, _, _)
InviteEvents(room_id, events, i, acc) ==
    IF i > Len(events) \/ acc.exc # "none" THEN acc
    ELSE InviteEvents(room_id, events, i + 1, InviteEvent(room_id, events[i], i, acc))

\* parse_room_invite
ParseRoomInvite(room_id, room_dict, acc) ==
    IF Has(room_dict, "invite_state") /\ Has(room_dict.invite_state, "events")
    THEN InviteEvents(room_id, room_dict.invite_state.events, 1, acc)
    ELSE acc

\* A JSON object of rooms is an ordered dict: a sequence of (room_id, room)
RECURSIVE JoinRooms(_, _, _)
JoinRooms(items, i, acc) ==
    IF i > Len(items) \/ acc.exc # "none" THEN acc
    ELSE JoinRooms(items, i + 1, ParseRoomJoin(items[i].room_id, items[i].room, acc))

RECURSIVE InviteRooms(_, _, _)
InviteRooms(items, i, acc) ==
    IF i > Len(items) \/ acc.exc # "none" THEN acc
    ELSE InviteRooms(items, i + 1, ParseRoomInvite(items[i].room_id, items[i].room, acc))

\* RoomsResponse.from_dict, then the two loops of sync()
DispatchRooms(rooms, acc) ==
    InviteRooms(Get(rooms, "invite", EmptyDict), 1,
        JoinRooms(Get(rooms, "join", EmptyDict), 1, acc))

-----------------------------------------------------------------------------
(* Sync loop *)

\* (mutant) sync() without the `case Ok({'next_batch': next_batch})` arm
SyncResult_RoomsOnly(res, L) ==
    LET acc0 == [calls |-> <<>>, exc |-> "none", listeners |-> L] IN
    IF IsOk(res) /\ Has(res.value, "next_batch") /\ Has(res.value, "rooms") THEN
        LET acc == DispatchRooms(res.value.rooms, acc0) IN
        [ret |-> res.value.next_batch, acc |-> acc]
    ELSE
        [ret |-> None, acc |-> acc0]

\* The rest of sync() once _GET has returned res: the value returned (None
\* when nothing is), the listener invocations, the exception that escaped
SyncResult(res, L) ==
    LET acc0 == [calls |-> <<>>, exc |-> "none", listeners |-> L] IN
    IF IsOk(res) /\ Has(res.value, "next_batch") /\ Has(res.value, "rooms") THEN
        LET acc == DispatchRooms(res.value.rooms, acc0) IN
        [ret |-> res.value.next_batch, acc |-> acc]
    ELSE IF IsOk(res) /\ Has(res.value, "next_batch") THEN
        [ret |-> res.value.next_batch, acc |-> acc0]
    ELSE
        [ret |-> None, acc |-> acc0]

\* (mutant) `while True`
Truthy_Always(v) == TRUE

\* `if next_batch := ...` / `while (next_batch := ...)`
Truthy(v) == v # None /\ v # ""

\* params of the first and of the later sync() calls of run()
FirstParams(full_sync) == [full_state |-> full_sync, timeout |-> 5000]
NextParams(cursor) == [since |-> cursor, timeout |-> 3000]

-----------------------------------------------------------------------------
(* Token store *)

\* A datetime: whole weeks and milliseconds since the start of the clock
At(ms) == [weeks |-> 0, ms |-> ms]

\* datetime + timedelta(weeks=w, milliseconds=ms)
Plus(dt, w, ms) == [weeks |-> dt.weeks + w, ms |-> dt.ms + ms]

TOKEN_KEYS == {"refresh_token", "access_token", "expires_in_ms"}

\* TokenResponse.from_dict: the known keys; a field left out is None
TokenFromDict(d) == [k \in (DOMAIN d) \cap TOKEN_KEYS |-> d[k]]

\* `if tokens.access_token` / `if tokens.refresh_token`: not None, not ""
StrTruthy(t, k) == Has(t, k) /\ t[k] # ""

\* `self.expires_in_ms` as a condition: not None, not 0
IntTruthy(t, k) == Has(t, k) /\ t[k] # 0

\* TokenResponse.get_expiry: a datetime, or nothing
GetExpiry(t, clock) ==
    IF StrTruthy(t, "access_token") /\ IntTruthy(t, "expires_in_ms")
    THEN [some |-> TRUE, at |-> Plus(At(clock), 0, t.expires_in_ms)]
    ELSE [some |-> FALSE, at |-> At(0)]

\* (mutant) self.access_token = tokens.access_token without the test
NewAccessToken_Unconditional(t, cur) == Get(t, "access_token", None)

\* _save_tokens: the three stored fields after the call
NewAccessToken(t, cur) ==
    IF StrTruthy(t, "access_token") THEN t.access_token ELSE cur

NewExpiry(t, cur, clock) ==
    IF StrTruthy(t, "access_token") /\ GetExpiry(t, clock).some
    THEN GetExpiry(t, clock).at
    ELSE cur

NewRefreshToken(t, cur) ==
    IF StrTruthy(t, "refresh_token") THEN t.refresh_token ELSE cur

\* _save_tokens(TokenResponse.from_dict(d))
SaveTokens(d) ==
    LET t == TokenFromDict(d) IN
    /\ access_token' = NewAccessToken(t, access_token)
    /\ access_token_expire' = NewExpiry(t, access_token_expire, now)
    /\ refresh_token' = NewRefreshToken(t, refresh_token)
    /\ applied' = t
    /\ UNCHANGED now

-----------------------------------------------------------------------------
(* The server's answers to an arbitrary request *)

Statuses == {200, 429, 401, 403, 500}

RawBodies ==
    { EmptyDict,
      [errcode |-> "M_FORBIDDEN", error |-> "denied"],
      [errcode |-> "M_UNKNOWN_TOKEN"],
      [error |-> "denied"],
      [retry_after_ms |-> 3],
      [errcode |-> "M_LIMIT_EXCEEDED", error |-> "slow down", retry_after_ms |-> 7],
      [next_batch |-> "b1"] }

RawResponses == { [status |-> s, body |-> b] : s \in Statuses, b \in RawBodies }

-----------------------------------------------------------------------------
(* Specification of the request executor alone: a client coroutine calls   *)
(* _GET/_POST and takes the result.                                        *)

InitPB ==
    /\ pb_pc = "idle"
    /\ caller = "none"
    /\ retry_cnt = 0
    /\ attempts = 0
    /\ hist = <<>>
    /\ resp = NoResp
    /\ last_sleep = 0
    /\ pb_result = NoResult
    /\ hdrs = <<>>

InitRun ==
    /\ run_pc = "init"
    /\ req_params = EmptyDict
    /\ next_batch = None

InitReg ==
    /\ listeners = EmptyDict
    /\ calls = <<>>
    /\ exc = "none"

InitTok ==
    /\ access_token = None
    /\ access_token_expire = Plus(At(0), 9999, 0)
    /\ refresh_token = None
    /\ applied = EmptyDict
    /\ now = 0

InitLogin ==
    /\ login_pc = "init"
    /\ login_ret = None
    /\ login_flows = NoResult
    /\ login_req = NoRequest
    /\ user_id = "@bot:x"

InitHS ==
    /\ hs_pc = "init"
    /\ server_name = None
    /\ maybe_homeserver = NoURL
    /\ hs_sent = <<>>
    /\ hs_probe = NoResp
    /\ hs_r = NoResp
    /\ hs_out = NoURL

Init == InitPB /\ InitRun /\ InitReg /\ InitTok /\ InitLogin /\ InitHS

ClientCall ==
    /\ pb_pc = "idle"
    /\ PB_Call("client")
    /\ UNCHANGED <<runVars, regVars, tokVars, loginVars, hsVars>>

ClientRespond ==
    /\ caller = "client"
    /\ \E r \in RawResponses : PB_Respond(r)
    /\ UNCHANGED <<runVars, regVars, tokVars, loginVars, hsVars>>

ClientWake ==
    /\ caller = "client"
    /\ PB_Wake
    /\ UNCHANGED <<runVars, regVars, tokVars, loginVars, hsVars>>

ClientReturn ==
    /\ caller = "client"
    /\ pb_pc = "done"
    /\ pb_pc' = "idle"
    /\ UNCHANGED <<caller, retry_cnt, attempts, hist, resp, last_sleep, pb_result, hdrs>>
    /\ UNCHANGED <<runVars, regVars, tokVars, loginVars, hsVars>>

\* Access tokens another coroutine of the program obtains meanwhile
ClientTokens == { [access_token |-> "T1"], [access_token |-> "T2"] }

\* Another coroutine (a login or a refresh) stores a token while the
\* client's request is suspended in its await or its sleep, or between
\* two requests
ClientSaveTokens ==
    /\ pb_pc \in {"idle", "await", "sleep"}
    /\ \E d \in ClientTokens : SaveTokens(d)
    /\ UNCHANGED <<pbVars, runVars, regVars, loginVars, hsVars>>

NextReq ==
    \/ ClientCall \/ ClientRespond \/ ClientWake \/ ClientReturn
    \/ ClientSaveTokens

SpecReq == Init /\ [][NextReq]_vars

-----------------------------------------------------------------------------
(* What the server sends in a sync response *)

MaxEvents == 2
MaxListeners == 2

MsgContent == [body |-> "hi", msgtype |-> "m.text"]

ReactContent ==
    ("m.relates_to" :> [event_id |-> "$1", key |-> "door", rel_type |-> "m.annotation"])
    @@ [shortcode |-> "door"]

MemberContent == [membership |-> "invite"]

\* Envelopes of a joined room's timeline (ClientEventWithoutRoomID)
EvMsg == [type |-> MSG_KEY, content |-> MsgContent, sender |-> "@a:x", event_id |-> "$1"]
EvMsgTs ==
    [type |-> MSG_KEY, content |-> MsgContent, sender |-> "@b:x", event_id |-> "$2",
     origin_server_ts |-> IntTs(5000)]
EvReaction == [type |-> REACTION_KEY, content |-> ReactContent, sender |-> "@a:x", event_id |-> "$3"]
EvTopic == [type |-> "m.room.topic", content |-> [topic |-> "t"], sender |-> "@a:x", event_id |-> "$4"]
EvNoType == [content |-> MsgContent, sender |-> "@a:x", event_id |-> "$5"]

TimelineEvents == {EvMsg, EvMsgTs, EvReaction, EvTopic, EvNoType}

\* Envelopes of an invited room's invite_state (StrippedStateEvent)
EvMember ==
    [type |-> "m.room.member", content |-> MemberContent, sender |-> "@a:x", state_key |-> "@bot:x"]
EvName == [type |-> "m.room.name", content |-> [name |-> "n"], sender |-> "@a:x", state_key |-> ""]

InviteStateEvents == {EvMember, EvName}

SeqsUpTo(S, n) == UNION { [1..k -> S] : k \in 0..n }

Item(room_id, room) == [room_id |-> room_id, room |-> room]
JoinedRoom(events) == [timeline |-> [events |-> events, limited |-> FALSE]]
InvitedRoom(events) == [invite_state |-> [events |-> events]]

RECURSIVE EventsIn(_)
EventsIn(items) ==
    IF items = <<>> THEN 0
    ELSE (IF Has(Head(items).room, "timeline")
             THEN Len(Head(items).room.timeline.events)
          ELSE IF Has(Head(items).room, "invite_state")
             THEN Len(Head(items).room.invite_state.events)
          ELSE 0) + EventsIn(Tail(items))

\* A 'join' object over the envelopes E: no room, one room, or two rooms in
\* the order sent
JoinMapsOf(E) ==
    { <<>>, <<Item("!r1", EmptyDict)>> }
    \cup { <<Item("!r1", JoinedRoom(a))>> : a \in SeqsUpTo(E, MaxEvents) }
    \cup { <<Item("!r1", JoinedRoom(ab[1])), Item("!r2", JoinedRoom(ab[2]))>> :
             ab \in { p \in (SeqsUpTo(E, MaxEvents) \ {<<>>})
                            \X (SeqsUpTo(E, MaxEvents) \ {<<>>}) :
                        Len(p[1]) + Len(p[2]) <= MaxEvents } }

\* An 'invite' object over the envelopes E
InviteMapsOf(E) ==
    { <<>> }
    \cup { <<Item("!r3", InvitedRoom(a))>> : a \in SeqsUpTo(E, MaxEvents) \ {<<>>} }

JoinMaps == JoinMapsOf(TimelineEvents)

InviteMaps == InviteMapsOf(InviteStateEvents)

\* The 'rooms' object; the server leaves an empty section out
RoomsOf(j, i) ==
    (IF j # <<>> THEN [join |-> j] ELSE EmptyDict)
    @@ (IF i # <<>> THEN [invite |-> i] ELSE EmptyDict)

\* Every 'rooms' object of up to MaxEvents envelopes
RoomsOver(J, I) ==
    { RoomsOf(ji[1], ji[2]) :
        ji \in { p \in J \X I : EventsIn(p[1]) + EventsIn(p[2]) <= MaxEvents } }

AllRooms == RoomsOver(JoinMaps, InviteMaps)

ErrBody == [errcode |-> "M_UNKNOWN_TOKEN", error |-> "expired"]

\* Envelopes a decoder cannot take: a key the code reads is missing, or the
\* content is a JSON string
EvNoContent == [type |-> MSG_KEY, sender |-> "@a:x", event_id |-> "$6"]
EvNoSender == [type |-> MSG_KEY, content |-> MsgContent, event_id |-> "$7"]
EvStrContent ==
    [type |-> MSG_KEY, content |-> JStr("hi"), sender |-> "@a:x", event_id |-> "$8"]
EvMemberNoSender ==
    [type |-> "m.room.member", content |-> MemberContent, state_key |-> "@bot:x"]

MalformedTimelineEvents == {EvMsg, EvNoType, EvNoContent, EvNoSender, EvStrContent}

MalformedInviteEvents == {EvMember, EvMemberNoSender}

\* Answers to the sync request that may hold malformed envelopes
DecodeResponses ==
    { [status |-> 200, body |-> [next_batch |-> "b1", rooms |-> r]] :
        r \in RoomsOver(JoinMapsOf(MalformedTimelineEvents),
                        InviteMapsOf(MalformedInviteEvents)) }
    \cup { [status |-> 403, body |-> ErrBody] }

\* Answers to the sync request of a server that does not rate-limit
DispatchResponses ==
    { [status |-> 200, body |-> [next_batch |-> "b1", rooms |-> r]] : r \in AllRooms }
    \cup { [status |-> 403, body |-> ErrBody] }

\* Cursors; the empty string is the one falsy str
Batches == {"", "b1", "b2"}

RunRooms ==
    { EmptyDict,
      RoomsOf(<<Item("!r1", JoinedRoom(<<EvMsg>>))>>, <<>>),
      RoomsOf(<<Item("!r1", JoinedRoom(<<EvMsgTs>>))>>, <<>>),
      RoomsOf(<<>>, <<Item("!r3", InvitedRoom(<<EvMember>>))>>) }

RunBodies ==
    { EmptyDict }
    \cup { [next_batch |-> nb] : nb \in Batches }
    \cup { [next_batch |-> nb, rooms |-> r] : nb \in Batches, r \in RunRooms }

\* Answers to the sync request of any server
RunResponses ==
    { [status |-> 200, body |-> b] : b \in RunBodies }
    \cup { [status |-> 429, body |-> b] : b \in {EmptyDict, [retry_after_ms |-> 3]} }
    \cup { [status |-> s, body |-> ErrBody] : s \in {401, 403} }
    \cup { [status |-> 500, body |-> EmptyDict] }

-----------------------------------------------------------------------------
(* Registration and the run() coroutine *)

\* Other code of the program runs before run() starts and while run() is
\* suspended in an await
CanRegister ==
    /\ run_pc = "init" \/ pb_pc \in {"await", "sleep"}
    /\ caller # "client"
    /\ TotalListeners(listeners) < MaxListeners

Register(key, f) ==
    /\ CanRegister
    /\ listeners' = Registered(listeners, key, f)
    /\ UNCHANGED <<calls, exc, pbVars, runVars, tokVars, loginVars, hsVars>>

OnMessage == \E f \in Callbacks : Register(MSG_KEY, f)
OnReaction == \E f \in Callbacks : Register(REACTION_KEY, f)
OnInvite == \E f \in Callbacks : Register(INVITE_KEY, f)

\* run(): the first sync() call, up to its await
RunStart ==
    /\ run_pc = "init"
    /\ \E full_sync \in BOOLEAN : req_params' = FirstParams(full_sync)
    /\ run_pc' = "syncing"
    /\ pb_pc = "idle"
    /\ PB_Call("sync")
    /\ UNCHANGED <<next_batch, regVars, tokVars, loginVars, hsVars>>

SyncRespond(responses) ==
    /\ caller = "sync"
    /\ \E r \in responses : PB_Respond(r)
    /\ UNCHANGED <<runVars, regVars, tokVars, loginVars, hsVars>>

SyncWake ==
    /\ caller = "sync"
    /\ PB_Wake
    /\ UNCHANGED <<runVars, regVars, tokVars, loginVars, hsVars>>

\* sync() from the return of _GET to its own return (or to the exception
\* that leaves it, and run() with it)
SyncReturn ==
    /\ caller = "sync"
    /\ run_pc = "syncing"
    /\ pb_pc = "done"
    /\ LET out == SyncResult(pb_result, listeners) IN
         /\ calls' = out.acc.calls
         /\ exc' = out.acc.exc
         /\ listeners' = out.acc.listeners
         /\ IF out.acc.exc # "none"
            THEN run_pc' = "raised" /\ UNCHANGED next_batch
            ELSE run_pc' = "synced" /\ next_batch' = out.ret
    /\ pb_pc' = "idle"
    /\ UNCHANGED <<caller, retry_cnt, attempts, hist, resp, last_sleep, pb_result, hdrs>>
    /\ UNCHANGED <<req_params, tokVars, loginVars, hsVars>>

\* run(): the test of the if / while on the value sync() returned, and the
\* next sync() call up to its await
RunLoop ==
    /\ run_pc = "synced"
    /\ IF Truthy(next_batch)
       THEN /\ req_params' = NextParams(next_batch)
            /\ run_pc' = "syncing"
            /\ pb_pc = "idle"
            /\ PB_Call("sync")
            /\ calls' = <<>>
            /\ UNCHANGED <<next_batch, listeners, exc, tokVars, loginVars, hsVars>>
       ELSE /\ run_pc' = "returned"
            /\ UNCHANGED <<req_params, next_batch, pbVars, regVars, tokVars, loginVars, hsVars>>

RunRespond == SyncRespond(RunResponses)

NextRun ==
    \/ OnMessage \/ OnReaction \/ OnInvite
    \/ RunStart \/ RunRespond \/ SyncWake \/ SyncReturn \/ RunLoop

\* run() against any server
SpecRun == Init /\ [][NextRun]_vars

DispatchRespond == SyncRespond(DispatchResponses)

NextDispatch ==
    \/ OnMessage \/ OnReaction \/ OnInvite
    \/ RunStart \/ DispatchRespond \/ SyncReturn \/ RunLoop

\* run() against a server that does not rate-limit, over every sync
\* response of up to MaxEvents envelopes
SpecDispatch == Init /\ [][NextDispatch]_vars

DecodeRespond == SyncRespond(DecodeResponses)

NextDecode ==
    \/ OnMessage \/ OnInvite
    \/ RunStart \/ DecodeRespond \/ SyncReturn \/ RunLoop

\* run() with message and invite listeners against a server whose sync
\* responses may hold malformed envelopes
SpecDecode == Init /\ [][NextDecode]_vars

-----------------------------------------------------------------------------
(* The token store on its own: token results arrive as time passes *)

MaxTime == 2

\* Bodies of a login / refresh answer: every field may be missing, a token
\* may be the empty string and a lifetime may be 0
Opt(k, values) == { EmptyDict } \cup { k :> v : v \in values }

TokenDicts ==
    { a @@ r @@ e @@ u :
        a \in Opt("access_token", {"", "T1", "T2"}),
        r \in Opt("refresh_token", {"", "R1", "R2"}),
        e \in Opt("expires_in_ms", {0, 1000, 2000}),
        u \in Opt("user_id", {"@bot:x"}) }

Tick ==
    /\ now < MaxTime
    /\ now' = now + 1
    /\ UNCHANGED <<access_token, access_token_expire, refresh_token, applied>>
    /\ UNCHANGED <<pbVars, runVars, regVars, loginVars, hsVars>>

ApplyTokens ==
    /\ \E d \in TokenDicts : SaveTokens(d)
    /\ UNCHANGED <<pbVars, runVars, regVars, loginVars, hsVars>>

NextTokens == Tick \/ ApplyTokens

SpecTokens == Init /\ [][NextTokens]_vars

-----------------------------------------------------------------------------
(* login / login_token: the coroutines that fill the token store *)

\* `device_id = 'jqIrfOF3Ub'` at the top of login() replaces the argument
DEBUG_DEVICE_ID == "jqIrfOF3Ub"

Flow(t) == [type |-> t]

\* `{'type': 'm.login.password'} in supported_login_types`
PasswordSupported(supported) ==
    \E i \in 1..Len(supported) : supported[i] = Flow("m.login.password")

\* The first match of login(): "false" for the two arms that return False,
\* "post" when the statement is left without a return
FlowsOutcome(res) ==
    IF IsOk(res) /\ Has(res.value, "flows") THEN
        IF ~PasswordSupported(res.value.flows) THEN "false" ELSE "post"
    ELSE IF IsErr(res) THEN "false"
    ELSE "post"

Request(method, path, json) == [method |-> method, path |-> path, json |-> json]

\* The json of POST client/v3/login
LoginJson(password, device_id, uid) ==
    [device_id |-> device_id,
     identifier |-> [type |-> "m.id.user", user |-> uid],
     refresh_token |-> TRUE,
     password |-> password,
     type |-> "m.login.password"]

\* `case Ok({"user_id": user_id, 'device_id': returned_device_id, **rest})`
IsLoginOk(res) ==
    IsOk(res) /\ Has(res.value, "user_id") /\ Has(res.value, "device_id")

LoginRest(value) == [k \in (DOMAIN value) \ {"user_id", "device_id"} |-> value[k]]

Passwords == {"pw"}
RefreshTokens == {"R0"}

\* Answers to GET client/v3/login
FlowsBodies ==
    { EmptyDict,
      [flows |-> <<>>],
      [flows |-> <<Flow("m.login.password")>>],
      [flows |-> <<Flow("m.login.sso")>>],
      [flows |-> <<Flow("m.login.sso"), Flow("m.login.password")>>] }

OtherResponses ==
    { [status |-> 429, body |-> EmptyDict],
      [status |-> 403, body |-> ErrBody],
      [status |-> 500, body |-> EmptyDict] }

FlowsResponses ==
    { [status |-> 200, body |-> b] : b \in FlowsBodies } \cup OtherResponses

\* Bodies of a token answer: any field may be missing
IssuedTokens ==
    { a @@ r @@ e :
        a \in Opt("access_token", {"", "T1", "T2"}),
        r \in Opt("refresh_token", {"R1"}),
        e \in Opt("expires_in_ms", {1000}) }

\* Answers to POST client/v3/login
LoginResponses ==
    { [status |-> 200, body |-> u @@ d @@ t] :
        u \in Opt("user_id", {"@bot:x", "@b:x"}),
        d \in Opt("device_id", {DEBUG_DEVICE_ID, "OTHER"}),
        t \in IssuedTokens }
    \cup OtherResponses

\* Answers to POST client/v3/refresh
RefreshResponses ==
    { [status |-> 200, body |-> t] : t \in IssuedTokens } \cup OtherResponses

\* login(password): up to the await of _GET("client/v3/login")
LoginCall ==
    /\ login_pc \in {"init", "returned"}
    /\ pb_pc = "idle"
    /\ login_pc' = "flows"
    /\ login_ret' = None
    /\ login_flows' = NoResult
    /\ login_req' = Request("GET", "client/v3/login", EmptyDict)
    /\ PB_Call("login")
    /\ UNCHANGED <<user_id, runVars, regVars, tokVars, hsVars>>

\* login_token(refresh_token): up to the await of _POST("client/v3/refresh")
LoginTokenCall ==
    /\ login_pc \in {"init", "returned"}
    /\ pb_pc = "idle"
    /\ login_pc' = "refresh"
    /\ login_ret' = None
    /\ login_flows' = NoResult
    /\ \E rt \in RefreshTokens :
          login_req' = Request("POST", "client/v3/refresh", [refresh_token |-> rt])
    /\ PB_Call("login")
    /\ UNCHANGED <<user_id, runVars, regVars, tokVars, hsVars>>

LoginRespond ==
    /\ caller = "login"
    /\ \E r \in (IF login_pc = "flows" THEN FlowsResponses
                 ELSE IF login_pc = "post" THEN LoginResponses
                 ELSE RefreshResponses) : PB_Respond(r)
    /\ UNCHANGED <<runVars, regVars, tokVars, loginVars, hsVars>>

LoginWake ==
    /\ caller = "login"
    /\ PB_Wake
    /\ UNCHANGED <<runVars, regVars, tokVars, loginVars, hsVars>>

\* login() from the return of _GET to `return False` or to the await of
\* _POST("client/v3/login", ...)
LoginFlows ==
    /\ caller = "login"
    /\ login_pc = "flows"
    /\ pb_pc = "done"
    /\ login_flows' = pb_result
    /\ IF FlowsOutcome(pb_result) = "false"
       THEN /\ login_pc' = "returned"
            /\ login_ret' = "False"
            /\ pb_pc' = "idle"
            /\ UNCHANGED <<caller, retry_cnt, attempts, hist, resp, last_sleep, pb_result, hdrs>>
            /\ UNCHANGED login_req
       ELSE /\ login_pc' = "post"
            /\ \E password \in Passwords :
                  login_req' = Request("POST", "client/v3/login",
                                       LoginJson(password, DEBUG_DEVICE_ID, user_id))
            /\ PB_Call("login")
            /\ UNCHANGED login_ret
    /\ UNCHANGED <<user_id, runVars, regVars, tokVars, hsVars>>

\* login() from the return of _POST to its own return, or to the
\* AssertionError that leaves it
LoginPost ==
    /\ caller = "login"
    /\ login_pc = "post"
    /\ pb_pc = "done"
    /\ IF IsLoginOk(pb_result)
       THEN /\ user_id' = pb_result.value.user_id
            /\ IF DEBUG_DEVICE_ID # "" /\ DEBUG_DEVICE_ID # pb_result.value.device_id
               THEN /\ login_pc' = "raised"
                    /\ UNCHANGED <<login_ret, tokVars>>
               ELSE /\ SaveTokens(LoginRest(pb_result.value))
                    /\ login_pc' = "returned"
                    /\ login_ret' = "True"
       ELSE /\ login_pc' = "returned"
            /\ login_ret' = "False"
            /\ UNCHANGED <<user_id, tokVars>>
    /\ pb_pc' = "idle"
    /\ UNCHANGED <<caller, retry_cnt, attempts, hist, resp, last_sleep, pb_result, hdrs>>
    /\ UNCHANGED <<login_flows, login_req, runVars, regVars, hsVars>>

\* login_token() from the return of _POST to its own return
LoginToken ==
    /\ caller = "login"
    /\ login_pc = "refresh"
    /\ pb_pc = "done"
    /\ IF IsOk(pb_result)
       THEN /\ SaveTokens(pb_result.value)
            /\ login_ret' = "True"
       ELSE /\ login_ret' = "False"
            /\ UNCHANGED tokVars
    /\ login_pc' = "returned"
    /\ pb_pc' = "idle"
    /\ UNCHANGED <<caller, retry_cnt, attempts, hist, resp, last_sleep, pb_result, hdrs>>
    /\ UNCHANGED <<login_flows, login_req, user_id, runVars, regVars, hsVars>>

NextLogin ==
    \/ LoginCall \/ LoginTokenCall \/ LoginRespond \/ LoginWake
    \/ LoginFlows \/ LoginPost \/ LoginToken

\* A program that logs in, with a password or a refresh token, any number
\* of times
SpecLogin == Init /\ [][NextLogin]_vars

-----------------------------------------------------------------------------
(* Homeserver resolution: get_homeserver / _test_is_homeserver *)

\* A URL: scheme, authority and the path split at its slashes, so that
\* "/_matrix/" is <<"_matrix", "">> and no path at all is <<>>
URL(scheme, host, path) == [scheme |-> scheme, host |-> host, path |-> path]

\* httpx.URL.join with a relative path (RFC 3986): the last segment of the
\* base path is replaced by the reference
JoinRel(u, ref) ==
    [u EXCEPT !.path = (IF @ = <<>> THEN <<>> ELSE SubSeq(@, 1, Len(@) - 1)) \o ref]

\* httpx.URL.join with a path that starts with "/" (RFC 3986): the path of
\* the base is replaced by the reference
JoinAbs(u, ref) == [u EXCEPT !.path = ref]

\* httpx.URL(f'https://{server_name}/_matrix/')
DirectCandidate(sn) == URL("https", sn, <<"_matrix", "">>)

\* f'https://{server_name}/.well-known/matrix/client'
WellKnownURL(sn) == URL("https", sn, <<".well-known", "matrix", "client">>)

\* homeserver.join('client/versions')
VersionsURL(homeserver) == JoinRel(homeserver, <<"client", "versions">>)

\* _test_is_homeserver: the scheme test that precedes the request
SchemeOk(homeserver) == homeserver.scheme = "https"

\* _test_is_homeserver: r.status_code == 200 and 'versions' in r.json()
IsHomeserver(r) == r.status = 200 /\ Has(r.body, "versions")

\* case {"m.homeserver": {"base_url": base_url}} under r.status_code == 200
HasBaseUrl(r) ==
    /\ r.status = 200
    /\ Has(r.body, "m.homeserver")
    /\ Has(r.body["m.homeserver"], "base_url")

BaseUrlOf(r) == r.body["m.homeserver"].base_url

\* httpx.URL(base_url).join('/_matrix/')
WellKnownCandidate(base_url) == JoinAbs(base_url, <<"_matrix", "">>)

ServerNames == {"s.example", "t.example:8448"}

\* Answers to GET .../client/versions
ProbeResponses ==
    { [status |-> st, body |-> b] :
        st \in {200, 404},
        b \in { [versions |-> <<"v1.1">>], EmptyDict, [errcode |-> "M_NOT_FOUND"] } }

\* base_url values of a discovery document
BaseUrls ==
    { URL("https", "h.example", <<>>),
      URL("https", "h.example", <<"">>),
      URL("https", "h.example", <<"base">>),
      URL("http", "h.example", <<>>) }

\* Answers to GET .../.well-known/matrix/client
WellKnownResponses ==
    { [status |-> st, body |-> b] :
        st \in {200, 404},
        b \in { EmptyDict, "m.homeserver" :> EmptyDict }
              \cup { "m.homeserver" :> [base_url |-> u] : u \in BaseUrls } }

\* get_homeserver(server_name) up to the request of the direct probe (the
\* scheme of the first candidate is always https)
GetHomeserver ==
    /\ hs_pc = "init"
    /\ \E sn \in ServerNames :
          /\ server_name' = sn
          /\ maybe_homeserver' = DirectCandidate(sn)
          /\ hs_sent' = <<VersionsURL(DirectCandidate(sn))>>
    /\ hs_pc' = "probe1"
    /\ UNCHANGED <<hs_probe, hs_r, hs_out>>
    /\ UNCHANGED <<pbVars, runVars, regVars, tokVars, loginVars>>

\* The direct probe is answered: return the candidate, or request the
\* discovery document
DirectProbe ==
    /\ hs_pc = "probe1"
    /\ \E r \in ProbeResponses :
          /\ hs_probe' = r
          /\ IF IsHomeserver(r)
             THEN /\ hs_pc' = "returned"
                  /\ hs_out' = maybe_homeserver
                  /\ UNCHANGED hs_sent
             ELSE /\ hs_pc' = "wellknown"
                  /\ hs_sent' = Append(hs_sent, WellKnownURL(server_name))
                  /\ UNCHANGED hs_out
    /\ UNCHANGED <<server_name, maybe_homeserver, hs_r>>
    /\ UNCHANGED <<pbVars, runVars, regVars, tokVars, loginVars>>

\* The discovery document is answered: probe the candidate built from its
\* base_url, or raise ValueError
WellKnown ==
    /\ hs_pc = "wellknown"
    /\ \E r \in WellKnownResponses :
          /\ hs_r' = r
          /\ IF HasBaseUrl(r)
             THEN /\ maybe_homeserver' = WellKnownCandidate(BaseUrlOf(r))
                  /\ IF SchemeOk(WellKnownCandidate(BaseUrlOf(r)))
                     THEN /\ hs_pc' = "probe2"
                          /\ hs_sent' = Append(hs_sent,
                                 VersionsURL(WellKnownCandidate(BaseUrlOf(r))))
                     ELSE /\ hs_pc' = "raised"
                          /\ UNCHANGED hs_sent
             ELSE /\ hs_pc' = "raised"
                  /\ UNCHANGED <<maybe_homeserver, hs_sent>>
    /\ UNCHANGED <<server_name, hs_probe, hs_out>>
    /\ UNCHANGED <<pbVars, runVars, regVars, tokVars, loginVars>>

\* The probe of the discovered candidate is answered: return it, or raise
\* ValueError
SecondProbe ==
    /\ hs_pc = "probe2"
    /\ \E r \in ProbeResponses :
          /\ hs_probe' = r
          /\ IF IsHomeserver(r)
             THEN /\ hs_pc' = "returned"
                  /\ hs_out' = maybe_homeserver
             ELSE /\ hs_pc' = "raised"
                  /\ UNCHANGED hs_out
    /\ UNCHANGED <<server_name, maybe_homeserver, hs_sent, hs_r>>
    /\ UNCHANGED <<pbVars, runVars, regVars, tokVars, loginVars>>

NextHS == GetHomeserver \/ DirectProbe \/ WellKnown \/ SecondProbe

SpecHS == Init /\ [][NextHS]_vars

-----------------------------------------------------------------------------
(* Claims about the request executor (checked under SpecReq) *)

\* k times 429
Rep429(k) == [i \in 1..k |-> 429]

\* process_body has returned from its current call
Returned == pb_pc \in {"done", "idle"} /\ hist # <<>>

\* C1: k responses 429 (0 <= k <= MAX_RETRIES-1) followed by a 200 make
\* process_body return Ok with the body of that 200 after exactly k+1
\* calls of func(); after k such 429 responses alone it has not returned
\* but sleeps or awaits call number k+1.
C1_OkAfterRetries ==
    \A k \in 0..(MAX_RETRIES - 1) :
        /\ (hist = Rep429(k) /\ pb_pc # "idle") =>
               \/ pb_pc = "await" /\ attempts = k + 1
               \/ pb_pc = "sleep" /\ attempts = k
        /\ hist = Append(Rep429(k), 200) =>
               /\ Returned
               /\ resp.status = 200
               /\ pb_result = Ok(resp.body)
               /\ attempts = k + 1

C1_Witness ==
    /\ hist = Append(Rep429(MAX_RETRIES - 1), 200)
    /\ pb_pc = "done"
    /\ pb_result = Ok([next_batch |-> "b1"])

\* C2: MAX_RETRIES consecutive 429 responses make exactly MAX_RETRIES
\* attempts and end in the 'retries exhausted' error, which no other
\* response sequence produces; every call makes between 1 and MAX_RETRIES
\* attempts.
C2_ExactlyMaxRetries ==
    /\ (pb_pc # "idle" \/ hist # <<>>) => attempts \in 1..MAX_RETRIES
    /\ Len(hist) <= attempts
    /\ hist = Rep429(MAX_RETRIES) =>
           /\ attempts = MAX_RETRIES
           /\ pb_pc # "await"
           /\ Returned => pb_result = Err(ErrExhausted(MAX_RETRIES))
    /\ (Returned /\ IsErr(pb_result) /\ pb_result.error.class = "exhausted") =>
           hist = Rep429(MAX_RETRIES)

C2_Witness ==
    /\ hist = Rep429(MAX_RETRIES)
    /\ pb_pc = "done"
    /\ pb_result = Err(ErrExhausted(MAX_RETRIES))
    /\ attempts = MAX_RETRIES

\* C3: only 429 is retried.  Every response before the last one of a call
\* was a 429, and a response that is neither 200 nor 429 ends the call at
\* once with an error: the errcode for 401/403 with errcode and error in
\* the body, 'Unknown' with the status and the raw body otherwise.
C3_Only429Retried ==
    /\ \A i \in 1..(Len(hist) - 1) : hist[i] = 429
    /\ (hist # <<>> /\ hist[Len(hist)] \notin {200, 429}) =>
           /\ Returned
           /\ attempts = Len(hist)
           /\ IF /\ resp.status \in {401, 403}
                 /\ "errcode" \in DOMAIN resp.body
                 /\ "error" \in DOMAIN resp.body
              THEN pb_result = Err(ErrCode(resp.body.errcode))
              ELSE pb_result = Err(ErrUnknown(resp.status, resp.body))

C3_Witness ==
    /\ hist = <<429, 403>>
    /\ pb_pc = "done"
    /\ resp.body = [errcode |-> "M_UNKNOWN_TOKEN"]
    /\ pb_result = Err(ErrUnknown(403, [errcode |-> "M_UNKNOWN_TOKEN"]))

-----------------------------------------------------------------------------
(* Claims about the sync loop (checked under SpecRun) *)

\* C4: the cursor sent as 'since' in the next sync request is the
\* next_batch of the response just handled, with or without a 'rooms' key;
\* a body with only next_batch invokes no listener, makes next_batch the
\* cursor, and a non-empty cursor is followed by the next request.
C4_CursorAdvances ==
    [][ /\ (run_pc = "synced" /\ run_pc' = "syncing") =>
              /\ IsOk(pb_result)
              /\ "next_batch" \in DOMAIN pb_result.value
              /\ "since" \in DOMAIN req_params'
              /\ req_params'.since = pb_result.value.next_batch
              /\ pb_pc' = "await"
        /\ (/\ run_pc = "syncing" /\ pb_pc = "done" /\ IsOk(pb_result)
            /\ DOMAIN pb_result.value = {"next_batch"}) =>
              /\ calls' = <<>>
              /\ run_pc' = "synced"
              /\ next_batch' = pb_result.value.next_batch
        /\ (/\ run_pc = "synced" /\ IsOk(pb_result)
            /\ "next_batch" \in DOMAIN pb_result.value
            /\ pb_result.value.next_batch # "") =>
              run_pc' = "syncing"
      ]_vars

C4_Witness ==
    /\ run_pc = "syncing"
    /\ pb_pc = "done"
    /\ req_params = [since |-> "b1", timeout |-> 3000]
    /\ pb_result = Ok([next_batch |-> "b2"])
    /\ TotalListeners(listeners) = MaxListeners

\* C5 (as claimed): whenever run() has stopped issuing sync requests, the
\* process_body result of its last sync request was an Err.
C5_StopsOnlyOnErr ==
    run_pc \in {"returned", "raised"} => IsErr(pb_result)

\* C6: an error from the request executor ends run(): sync() returns None
\* without invoking a listener, run() returns, and nothing is requested
\* after that.
C6_ErrEndsRun ==
    [][ /\ (run_pc = "syncing" /\ pb_pc = "done" /\ IsErr(pb_result)) =>
              /\ run_pc' = "synced"
              /\ next_batch' = None
              /\ calls' = <<>>
              /\ exc' = "none"
              /\ pb_pc' = "idle"
        /\ (run_pc = "synced" /\ IsErr(pb_result)) =>
              /\ run_pc' = "returned"
              /\ pb_pc' = "idle"
              /\ UNCHANGED <<attempts, hist, calls, pb_result>>
        /\ run_pc = "returned" => UNCHANGED vars
      ]_vars

C6_Witness ==
    /\ run_pc = "returned"
    /\ pb_result = Err(ErrExhausted(MAX_RETRIES))
    /\ "since" \in DOMAIN req_params
    /\ TotalListeners(listeners) = MaxListeners
    /\ calls = <<>>

-----------------------------------------------------------------------------
(* Claims about dispatch (checked under SpecDispatch) *)

\* sync() has run its dispatch on an Ok body with next_batch and rooms
Dispatched ==
    /\ run_pc \in {"synced", "raised"}
    /\ IsOk(pb_result)
    /\ "next_batch" \in DOMAIN pb_result.value
    /\ "rooms" \in DOMAIN pb_result.value

\* the 'join' items of the response just handled
JoinItems == Get(pb_result.value.rooms, "join", <<>>)

TimelineOf(item) ==
    IF Has(item.room, "timeline") THEN item.room.timeline.events ELSE <<>>

\* the invocations made for envelope i of the room, in the order made
CallsFor(src, room_id, i) ==
    SelectSeq(calls, LAMBDA c : c.src = src /\ c.room = room_id /\ c.idx = i)

FsOf(cs) == [k \in 1..Len(cs) |-> cs[k].f]

\* the envelope has a type with at least one registered listener
HasListeners(ev) ==
    /\ "type" \in DOMAIN ev
    /\ "content" \in DOMAIN ev
    /\ ev.type \in DOMAIN listeners
    /\ Len(listeners[ev.type]) >= 1

\* the envelope has a type for which nothing is registered
HasNoListener(ev) ==
    /\ "type" \in DOMAIN ev
    /\ "content" \in DOMAIN ev
    /\ ev.type \notin DOMAIN listeners

\* C7 (as claimed): for every timeline envelope whose type has n >= 1
\* registered listeners, the invocations made for it are exactly the n
\* registered listeners, each once, in registration order.
C7_AllListenersInvoked ==
    Dispatched =>
        \A r \in 1..Len(JoinItems) :
            \A i \in 1..Len(TimelineOf(JoinItems[r])) :
                HasListeners(TimelineOf(JoinItems[r])[i]) =>
                    FsOf(CallsFor("join", JoinItems[r].room_id, i))
                        = listeners[TimelineOf(JoinItems[r])[i].type]

\* C8: within one room's timeline the invocations follow the array order
\* of the envelopes: no invocation for a later envelope precedes one for an
\* earlier envelope of the same room.
C8_TimelineOrder ==
    \A a, b \in 1..Len(calls) :
        (a < b /\ calls[a].src = "join" /\ calls[b].src = "join"
               /\ calls[a].room = calls[b].room)
            => calls[a].idx <= calls[b].idx

C8_Witness ==
    /\ run_pc = "synced"
    /\ Len(calls) >= 2
    /\ \E a, b \in 1..Len(calls) :
          /\ a < b
          /\ calls[a].src = "join" /\ calls[b].src = "join"
          /\ calls[a].room = calls[b].room
          /\ calls[a].idx = 1 /\ calls[b].idx = 2

\* every envelope of the room's timeline before position j has a type
\* without a listener
AllDroppedBefore(events, j) ==
    \A i \in 1..(j - 1) : HasNoListener(events[i])

\* C9: a timeline envelope whose type has no registered listener is
\* dropped: nothing is invoked for it, it raises nothing, and the envelope
\* after it is processed.
C9_UnlistenedDropped ==
    Dispatched =>
        /\ \A r \in 1..Len(JoinItems) :
              \A i \in 1..Len(TimelineOf(JoinItems[r])) :
                  HasNoListener(TimelineOf(JoinItems[r])[i]) =>
                      CallsFor("join", JoinItems[r].room_id, i) = <<>>
        /\ ( /\ ~Has(pb_result.value.rooms, "invite")
             /\ \A r \in 1..Len(JoinItems) :
                   \A i \in 1..Len(TimelineOf(JoinItems[r])) :
                       HasNoListener(TimelineOf(JoinItems[r])[i]) )
              => (exc = "none" /\ run_pc = "synced" /\ calls = <<>>)
        /\ Len(JoinItems) >= 1 =>
              \A j \in 1..Len(TimelineOf(JoinItems[1])) :
                  ( /\ AllDroppedBefore(TimelineOf(JoinItems[1]), j)
                    /\ HasListeners(TimelineOf(JoinItems[1])[j]) )
                  => \/ exc # "none"
                     \/ /\ CallsFor("join", JoinItems[1].room_id, j) # <<>>
                        /\ calls[1].idx = j

C9_Witness ==
    /\ Dispatched
    /\ run_pc = "synced"
    /\ JoinItems = <<Item("!r1", JoinedRoom(<<EvTopic, EvMsg>>))>>
    /\ Len(calls) = 2
    /\ calls[1].idx = 2

-----------------------------------------------------------------------------
(* Claims about the token store (checked under SpecTokens) *)

\* C10: _save_tokens changes a stored field only when the result carries
\* that field.  A result with an access token and a lifetime stores the
\* token and now + lifetime; a result with only a refresh token stores it
\* and leaves the access token, the expiry and the Authorization header as
\* they were; a result with only an access token leaves the refresh token
\* as it was.  (A step that leaves the clock alone is a _save_tokens call
\* with the result `applied'`.)
C10_FieldsIndependent ==
    [][ now' = now =>
          /\ access_token' # access_token =>
                "access_token" \in DOMAIN applied' /\ access_token' = applied'.access_token
          /\ refresh_token' # refresh_token =>
                "refresh_token" \in DOMAIN applied' /\ refresh_token' = applied'.refresh_token
          /\ access_token_expire' # access_token_expire =>
                /\ "expires_in_ms" \in DOMAIN applied'
                /\ access_token_expire' = [weeks |-> 0, ms |-> now + applied'.expires_in_ms]
          /\ ( /\ "access_token" \in DOMAIN applied' /\ applied'.access_token # ""
               /\ "expires_in_ms" \in DOMAIN applied' /\ applied'.expires_in_ms # 0 ) =>
                /\ access_token' = applied'.access_token
                /\ access_token_expire' = [weeks |-> 0, ms |-> now + applied'.expires_in_ms]
                /\ AuthHeaders(access_token') =
                      [Authorization |-> <<"Bearer ", applied'.access_token>>]
          /\ (DOMAIN applied' = {"refresh_token"} /\ applied'.refresh_token # "") =>
                /\ refresh_token' = applied'.refresh_token
                /\ access_token' = access_token
                /\ access_token_expire' = access_token_expire
                /\ AuthHeaders(access_token') = AuthHeaders(access_token)
          /\ DOMAIN applied' = {"access_token"} =>
                refresh_token' = refresh_token
      ]_vars

C10_Witness ==
    /\ applied = [refresh_token |-> "R2"]
    /\ refresh_token = "R2"
    /\ access_token = "T1"
    /\ access_token_expire = [weeks |-> 0, ms |-> 1001]
    /\ now = 2

-----------------------------------------------------------------------------
(* Claims about login (checked under SpecLogin) *)

\* C11 (as claimed): whenever login or login_token has returned True, the
\* stored access token is the access token of the response that call
\* received, and is not absent.
C11_TrueMeansTokenStored ==
    (login_pc = "returned" /\ login_ret = "True") =>
        /\ IsOk(pb_result)
        /\ "access_token" \in DOMAIN pb_result.value
        /\ access_token = pb_result.value.access_token
        /\ access_token # None

-----------------------------------------------------------------------------
(* Claims about homeserver resolution (checked under SpecHS) *)

\* base_url with "/_matrix/" appended to it
Appended(base_url) ==
    [base_url EXCEPT !.path =
        (IF @ # <<>> /\ @[Len(@)] = "" THEN SubSeq(@, 1, Len(@) - 1) ELSE @)
            \o <<"_matrix", "">>]

\* the URL whose versions endpoint is hs_sent[i]
ProbedAt(i) == [hs_sent[i] EXCEPT !.path = SubSeq(@, 1, Len(@) - 2) \o <<"">>]

\* C12 (as claimed): get_homeserver returns https://{server_name}/_matrix/
\* when the direct probe succeeds; otherwise it fetches the discovery
\* document and, if that is a 200 with m.homeserver.base_url, returns
\* base_url + /_matrix/ exactly when the probe of that URL succeeds; in
\* every other case it raises.  The document is requested only after the
\* direct probe failed, and a candidate whose scheme is not https is
\* rejected without a probe request.
C12_Resolution ==
    /\ hs_pc \in {"returned", "raised"} =>
          /\ hs_sent[1] = [scheme |-> "https", host |-> server_name,
                           path |-> <<"_matrix", "client", "versions">>]
          /\ Len(hs_sent) = 1 <=>
                (hs_probe.status = 200 /\ "versions" \in DOMAIN hs_probe.body
                    /\ hs_r = NoResp)
          /\ Len(hs_sent) = 1 =>
                /\ hs_pc = "returned"
                /\ hs_out = [scheme |-> "https", host |-> server_name,
                             path |-> <<"_matrix", "">>]
          /\ Len(hs_sent) >= 2 =>
                /\ hs_sent[2] = [scheme |-> "https", host |-> server_name,
                                 path |-> <<".well-known", "matrix", "client">>]
                /\ IF HasBaseUrl(hs_r)
                   THEN IF BaseUrlOf(hs_r).scheme # "https"
                        THEN hs_pc = "raised" /\ Len(hs_sent) = 2
                        ELSE /\ Len(hs_sent) = 3
                             /\ ProbedAt(3) = Appended(BaseUrlOf(hs_r))
                             /\ IF hs_probe.status = 200
                                   /\ "versions" \in DOMAIN hs_probe.body
                                THEN /\ hs_pc = "returned"
                                     /\ hs_out = Appended(BaseUrlOf(hs_r))
                                ELSE hs_pc = "raised"
                   ELSE hs_pc = "raised" /\ Len(hs_sent) = 2
    /\ hs_pc = "probe1" => Len(hs_sent) = 1

-----------------------------------------------------------------------------
(* Further claims about dispatch (checked under SpecDispatch) *)

\* the room of the response just handled that has this id
JoinItemOf(room_id) ==
    CHOOSE it \in { JoinItems[r] : r \in 1..Len(JoinItems) } : it.room_id = room_id

\* the timeline envelope an invocation was made for
EnvelopeOf(c) == TimelineOf(JoinItemOf(c.room))[c.idx]

\* C13 (as claimed): every listener invocation for a timeline event
\* receives content equal to the envelope's content and metadata built from
\* that envelope: room_id is the id of the joined room whose timeline holds
\* the event, sender and event_id are the envelope's, and origin_server_ts,
\* where present, is the envelope's millisecond value as a timestamp.
C13_ContentAndMetadata ==
    Dispatched =>
        \A k \in 1..Len(calls) :
            calls[k].src = "join" =>
                /\ \E r \in 1..Len(JoinItems) :
                      /\ JoinItems[r].room_id = calls[k].metadata.room_id
                      /\ calls[k].idx \in 1..Len(TimelineOf(JoinItems[r]))
                /\ calls[k].metadata.room_id = calls[k].room
                /\ calls[k].content = EnvelopeOf(calls[k]).content
                /\ calls[k].metadata.sender = EnvelopeOf(calls[k]).sender
                /\ calls[k].metadata.event_id = EnvelopeOf(calls[k]).event_id
                /\ IF "origin_server_ts" \in DOMAIN EnvelopeOf(calls[k])
                   THEN calls[k].metadata.origin_server_ts =
                          [ty |-> "datetime",
                           us |-> EnvelopeOf(calls[k]).origin_server_ts.v * 1000]
                   ELSE calls[k].metadata.origin_server_ts = NoTs

\* C14 (as claimed): each listener receives its own copy of the content:
\* of two invocations made for the same envelope, the later one is given
\* the content the earlier one was given, whatever the earlier listener
\* wrote into its argument, at top level or into a nested value.
C14_ListenersIsolated ==
    \A a, b \in 1..Len(calls) :
        ( /\ a < b
          /\ calls[a].src = calls[b].src
          /\ calls[a].room = calls[b].room
          /\ calls[a].idx = calls[b].idx )
        => calls[b].content = calls[a].content

-----------------------------------------------------------------------------
(* Claims about malformed envelopes (checked under SpecDecode) *)

\* the envelope has the keys the decoders read and a JSON object as content
WellFormed(ev) ==
    /\ "type" \in DOMAIN ev
    /\ "content" \in DOMAIN ev
    /\ "sender" \in DOMAIN ev
    /\ "jstr" \notin DOMAIN ev.content

InviteItems == Get(pb_result.value.rooms, "invite", <<>>)

InviteStateOf(item) ==
    IF Has(item.room, "invite_state") THEN item.room.invite_state.events ELSE <<>>

\* C15 (as claimed): a malformed timeline or invite-state envelope (no
\* type, no content, no sender, or content that is not an object) is
\* skipped: nothing is invoked for it, every well-formed envelope of the
\* same response is still dispatched to the listeners of its type, and
\* sync() returns the response's next_batch.
C15_DecodeFailureContained ==
    Dispatched =>
        /\ run_pc = "synced"
        /\ exc = "none"
        /\ next_batch = pb_result.value.next_batch
        /\ \A r \in 1..Len(JoinItems) :
              \A i \in 1..Len(TimelineOf(JoinItems[r])) :
                  IF WellFormed(TimelineOf(JoinItems[r])[i])
                  THEN HasListeners(TimelineOf(JoinItems[r])[i]) =>
                          FsOf(CallsFor("join", JoinItems[r].room_id, i))
                              = listeners[TimelineOf(JoinItems[r])[i].type]
                  ELSE CallsFor("join", JoinItems[r].room_id, i) = <<>>
        /\ \A r \in 1..Len(InviteItems) :
              \A i \in 1..Len(InviteStateOf(InviteItems[r])) :
                  IF WellFormed(InviteStateOf(InviteItems[r])[i])
                  THEN ( /\ InviteStateOf(InviteItems[r])[i].type = "m.room.member"
                         /\ INVITE_KEY \in DOMAIN listeners )
                       => FsOf(CallsFor("invite", InviteItems[r].room_id, i))
                              = listeners[INVITE_KEY]
                  ELSE CallsFor("invite", InviteItems[r].room_id, i) = <<>>

-----------------------------------------------------------------------------
(* Further claims about the request executor (checked under SpecReq) *)

\* C16: the Authorization header is computed from the token store at each
\* attempt: every step that starts an attempt (the call, or the wake-up
\* from a backoff sleep) sends 'Bearer <t>' with t the access token stored
\* at that moment, and no Authorization header when none is stored; so a
\* token stored during the sleep is the one the next attempt carries.
C16_HeaderPerAttempt ==
    [][ (pb_pc # "await" /\ pb_pc' = "await") =>
          /\ Len(hdrs') = attempts'
          /\ \A i \in 1..(attempts' - 1) : hdrs'[i] = hdrs[i]
          /\ IF access_token = "None"
             THEN hdrs'[attempts'] = <<>>
             ELSE hdrs'[attempts'] = [Authorization |-> <<"Bearer ", access_token>>]
      ]_vars

C16_Witness ==
    /\ pb_pc = "await"
    /\ hist = <<429, 429>>
    /\ hdrs = << <<>>,
                 [Authorization |-> <<"Bearer ", "T1">>],
                 [Authorization |-> <<"Bearer ", "T2">>] >>
    /\ access_token = "T2"

\* C17: after the 429 that answers attempt number a (a = 0 for the first
\* attempt) process_body sleeps retry_after_ms milliseconds when the body
\* has that key and 2^a milliseconds otherwise (1, 2, 4, 8, 16, 32 for
\* a = 0..5); the sleep ends before any further attempt is made; a
\* response of another status is never followed by a sleep.
C17_BackoffSleep ==
    [][ /\ (pb_pc = "await" /\ pb_pc' # "await") =>
              IF resp'.status = 429
              THEN /\ pb_pc' = "sleep"
                   /\ attempts' = attempts
                   /\ Len(hist) = retry_cnt
                   /\ last_sleep' =
                        IF "retry_after_ms" \in DOMAIN resp'.body
                        THEN resp'.body.retry_after_ms
                        ELSE CASE Len(hist) = 0 -> 1
                               [] Len(hist) = 1 -> 2
                               [] Len(hist) = 2 -> 4
                               [] Len(hist) = 3 -> 8
                               [] Len(hist) = 4 -> 16
                               [] Len(hist) = 5 -> 32
              ELSE /\ pb_pc' = "done"
                   /\ last_sleep' = last_sleep
        /\ (pb_pc # "sleep" /\ pb_pc' = "sleep") =>
              (pb_pc = "await" /\ resp'.status = 429)
        /\ (pb_pc # "await" /\ pb_pc' = "await" /\ attempts' > 1) =>
              (pb_pc = "sleep" /\ attempts' = attempts + 1)
      ]_vars

C17_Witness ==
    /\ pb_pc = "sleep"
    /\ hist = Rep429(MAX_RETRIES)
    /\ resp.body = <<>>
    /\ last_sleep = 32

-----------------------------------------------------------------------------
(* Claims about invitations (checked under SpecDispatch) *)

\* C18 (as claimed): in a sync() call that raised nothing, every envelope
\* of every invited room's invite_state events is dispatched, in array
\* order, to every listener registered with on_invite, with
\* metadata.room_id the id of the invited room; and no invocation made for
\* a joined room's timeline event is made through the invite key.
C18_InviteDispatch ==
    (Dispatched /\ exc = "none") =>
        /\ \A r \in 1..Len(InviteItems) :
              \A i \in 1..Len(InviteStateOf(InviteItems[r])) :
                  ( /\ INVITE_KEY \in DOMAIN listeners
                    /\ "content" \in DOMAIN InviteStateOf(InviteItems[r])[i] )
                  => /\ FsOf(CallsFor("invite", InviteItems[r].room_id, i))
                           = listeners[INVITE_KEY]
                     /\ \A k \in 1..Len(calls) :
                           (calls[k].src = "invite" /\ calls[k].room = InviteItems[r].room_id)
                               => calls[k].metadata.room_id = InviteItems[r].room_id
        /\ \A a, b \in 1..Len(calls) :
              (a < b /\ calls[a].src = "invite" /\ calls[b].src = "invite"
                     /\ calls[a].room = calls[b].room)
                  => calls[a].idx <= calls[b].idx
        /\ \A k \in 1..Len(calls) :
              calls[k].src = "join" => EnvelopeOf(calls[k]).type # INVITE_KEY

-----------------------------------------------------------------------------
(* Further claims about login (checked under SpecLogin) *)

\* the answer to GET client/v3/login was a flows list with m.login.password
Advertised(res) ==
    /\ res.kind = "Ok"
    /\ "flows" \in DOMAIN res.value
    /\ \E i \in 1..Len(res.value.flows) :
          res.value.flows[i] = [type |-> "m.login.password"]

\* C19 (as claimed): login sends the password only after the answer to
\* GET client/v3/login advertised m.login.password; after any other answer
\* (an error, or a 200 body without 'flows') it returns False and the POST
\* client/v3/login request is not issued.
C19_PasswordOnlyIfAdvertised ==
    /\ "password" \in DOMAIN login_req.json => Advertised(login_flows)
    /\ (login_flows.kind # "none" /\ ~Advertised(login_flows)) =>
          /\ login_pc = "returned"
          /\ login_ret = "False"
          /\ login_req.method = "GET"

-----------------------------------------------------------------------------
(* Further claims about the token store (checked under SpecTokens) *)

\* C20 (as claimed): the stored expiry belongs to the stored access token.
\* While no access token is stored the expiry is the initial 'never'; and
\* when a _save_tokens call stores a different access token, the expiry
\* after the call is either 'never' or apply-time + lifetime of the same
\* result, never the expiry stored for the token before.  (A step that
\* leaves the clock alone is a _save_tokens call with the result `applied'`.)
C20_ExpiryBelongsToToken ==
    [][ /\ access_token' = "None" =>
              access_token_expire' = [weeks |-> 9999, ms |-> 0]
        /\ (now' = now /\ access_token' # access_token) =>
              \/ access_token_expire' = [weeks |-> 9999, ms |-> 0]
              \/ /\ "expires_in_ms" \in DOMAIN applied'
                 /\ access_token_expire' =
                       [weeks |-> 0, ms |-> now + applied'.expires_in_ms]
      ]_vars

=============================================================================
